---- MODULE Spec2Model ----
(***************************************************************************)
(* Event-sourcing actors of actor-es: the CommitStore replay functions,    *)
(* the Store actor (commit / snapshot / snapshot-list tasks, event bus)    *)
(* and the Entity actor (command tasks behind the handler mutex).          *)
(*                                                                         *)
(* Every message handler of an actor is one action (the mailbox is         *)
(* consumed head first, one message at a time); every task a handler       *)
(* spawns on the executor is a little process whose steps are the pieces   *)
(* of the task between two accesses to shared state (the backend table,    *)
(* the handler mutex, a mailbox).  Spawned tasks run on a thread pool, so  *)
(* their steps interleave freely.                                          *)
(***************************************************************************)
EXTENDS Integers, Sequences, FiniteSets, TLC

(* ------------------------------ bounds -------------------------------- *)
\* number of entity ids a client of the Store may name
MaxIds == 2
\* number of Commit messages clients tell the Store directly
MaxCommits == 2
\* number of queries clients ask (Store or Entity)
MaxQueries == 1
\* number of commands clients send to the Entity
MaxCmds == 2
\* number of ticks of the clock (SpecTime)
MaxTime == 2
\* changes in a stored history that is replayed (tests::load_snapshot: 4)
MaxChanges == 4

Ids == 1..MaxIds
\* an id no Create ever carries ("123".into() in tests::non_existing_entity)
NoSuchId == 0

(* ------------------------- Option / Result ---------------------------- *)
None == [tag |-> "None"]
Some(v) == [tag |-> "Some", val |-> v]
Ok(v) == [tag |-> "Ok", val |-> v]
Err(e) == [tag |-> "Err", err |-> e]
\* a panic (unwrap / expect) unwinding out of the function
Panicked == [tag |-> "Panic"]
\* Result::ok
ok(r) == IF r.tag = "Ok" THEN Some(r.val) ELSE None

(* ------------------- tests::TestCount and tests::Op ------------------- *)
TestCount(id, count) == [id |-> id, count |-> count]
Add(n) == [op |-> "Add", n |-> n]
Sub(n) == [op |-> "Sub", n |-> n]
\* whether x is a value of i16
FitsI16(x) == x >= -32768 /\ x <= 32767
\* what an i16 holds after an overflow when overflow checks are off (a
\* --release build): the two's complement wrap-around
I16(x) == ((x + 32768) % 65536) - 32768

\* the outcomes of `self.count += n` / `self.count -= n`: the model with the
\* new count when it fits an i16; on overflow either the panic "attempt to
\* add/subtract with overflow" (overflow checks on, the default profile of
\* the test build this cfg(test) type lives in) or the wrapped count
\* (overflow checks off)
apply_change(m, change) ==
    LET x == IF change.op = "Add"
             THEN m.count + change.n
             ELSE m.count - change.n
    IN  IF FitsI16(x)
        THEN {[m EXCEPT !.count = x]}
        ELSE {Panicked, [m EXCEPT !.count = I16(x)]}

(* ------------------------- Event and Commit --------------------------- *)
Create(m) == [tag |-> "Create", model |-> m]
Change(id, ch) == [tag |-> "Change", id |-> id, change |-> ch]
entity_id(e) == IF e.tag = "Create" THEN e.model.id ELSE e.id
entity(e) == IF e.tag = "Create" THEN Some(e.model) ELSE None
change(e) == IF e.tag = "Change" THEN Some(e.change) ELSE None

\* Commit::new, with the value Utc::now() gave
CommitNew(event, who, why, now) ==
    [event |-> event, when |-> now, who |-> who, why |-> why]
\* From<Event<T>> for Commit<T>
CommitFrom(e, now) == CommitNew(e, None, None, now)

(* ----------------- the in-memory backend (MemStore) ------------------- *)
\* the table: one insertion-ordered sequence of commits per id that has
\* commits; commit appends to the id's sequence, creating it if absent
EmptyStore == [id \in {} |-> <<>>]
keys(b) == DOMAIN b
change_list(b, id) == IF id \in DOMAIN b THEN b[id] ELSE <<>>
commit_toEveryLog(b, c) ==
    LET id == entity_id(c.event)
    IN  [k \in DOMAIN b \cup {id} |-> Append(change_list(b, k), c)]

commit_prepends(b, c) ==
    LET id == entity_id(c.event)
    IN  [k \in DOMAIN b \cup {id} |->
            IF k = id THEN <<c>> \o change_list(b, id) ELSE b[k]]

commit(b, c) ==
    LET id == entity_id(c.event)
    IN  [k \in DOMAIN b \cup {id} |->
            IF k = id THEN Append(change_list(b, id), c) ELSE b[k]]

(* ---------------- CommitStore's provided methods ---------------------- *)
TimeTraveler(model, changes) == [model |-> model, changes |-> changes]

get_unwrapsEmpty(b, id) ==
    LET changes == change_list(b, id)
    IN  IF changes = <<>>
        THEN Panicked
        ELSE LET first == entity(Head(changes).event)
             IN  IF first.tag = "None"
                 THEN Panicked
                 ELSE Ok(TimeTraveler(first.val, Tail(changes)))

get_skipsChange(b, id) ==
    LET changes == change_list(b, id)
    IN  IF changes = <<>>
        THEN Err("NotFound")
        ELSE LET first == entity(Head(changes).event)
             IN  IF first.tag = "None"
                 THEN Panicked
                 ELSE Ok(TimeTraveler(first.val,
                                      SubSeq(changes, 3, Len(changes))))

get(b, id) ==
    LET changes == change_list(b, id)
    IN  IF changes = <<>>
        THEN Err("NotFound")
        ELSE LET first == entity(Head(changes).event)
             IN  IF first.tag = "None"
                 THEN Panicked
                 ELSE Ok(TimeTraveler(first.val, Tail(changes)))

RECURSIVE try_fold(_, _)
\* the set of outcomes of the fold: one outcome unless a count overflows
try_fold(m, cs) ==
    IF cs = <<>>
    THEN {Ok(m)}
    ELSE LET ch == change(Head(cs).event)
         IN  IF ch.tag = "None"
             THEN {Panicked}
             ELSE UNION {IF o = Panicked
                         THEN {Panicked}
                         ELSE try_fold(o, Tail(cs)) :
                            o \in apply_change(m, ch.val)}

travel_to_reversed(tt, until) ==
    try_fold(tt.model,
             [i \in 1..Len(tt.changes) |->
                tt.changes[Len(tt.changes) + 1 - i]])

travel_to_stopsAtUntil(tt, until) ==
    try_fold(tt.model, SelectSeq(tt.changes, LAMBDA c : c.when <= until))

travel_to(tt, until) == try_fold(tt.model, tt.changes)

to_present(tt, now) == travel_to(tt, now)

snapshot(b, id, time) ==
    LET g == get(b, id)
    IN  IF g.tag = "Ok" THEN travel_to(g.val, time) ELSE {g}


(* ============================ the state =============================== *)
VARIABLES
    backend,      \* the backend table shared by all clones of the store handle
    store,        \* the Store actor: [name, bus] (bus: TRUE when Some(bus))
    storeMail,    \* the Store actor's mailbox
    commitTasks,  \* tasks spawned by Store::receive(Commit), in spawn order
    snapTasks,    \* tasks spawned by Store::receive((EntityId, DateTime))
    listTasks,    \* tasks spawned by Store::receive(DateTime)
    busMail,      \* Publish messages told to the event bus, not yet delivered
    subEvents,    \* events the subscriber actor (tests::TestSub) has received
    replies,      \* replies[a]: the messages the a-th ask's reply address got
    clock,        \* the instant Utc::now() returns
    entityMail,   \* the Entity actor's mailbox
    cmdTasks,     \* tasks spawned by Entity::recv for CQRS::Cmd, in spawn order
    esLock,       \* Mutex<E>: 0 when free, else the command task holding it
    nextId        \* number of ids EntityId::new() has generated

vars == <<backend, store, storeMail, commitTasks, snapTasks, listTasks, busMail,
          subEvents, replies, clock, entityMail, cmdTasks, esLock, nextId>>

storeVars == <<backend, store, storeMail, commitTasks, snapTasks, listTasks,
               busMail, subEvents>>
entityVars == <<entityMail, cmdTasks, esLock, nextId>>

\* format!("{}-events", cx.myself().name())
topic_name(name) == name \o "-events"
\* the topic tests::broadcast_event subscribes its TestSub to
SubTopic == topic_name("test-counts")

\* sender of a message told with None
NoSender == 0

\* the events a client of the Store tells it (tests of store.rs)
InitCounts == {0}
Ops == {Add(15), Sub(9)}
ClientEvents ==
    {Create(TestCount(id, n)) : id \in Ids, n \in InitCounts}
    \cup {Change(id, o) : id \in Ids, o \in Ops}

\* commit messages told to the Store so far
CommitsTold ==
    Len(commitTasks) + Len(SelectSeq(storeMail, LAMBDA m : m.kind = "Commit"))
\* queries asked by clients so far
QueriesAsked == Len(SelectSeq(replies, LAMBDA r : r.by = "query"))

\* a new one-shot reply address (riker_patterns::ask), by: who asks
\* ("query", "cmd": a client; "handler": handle_command)
NewAsk(by) == [by |-> by, got |-> <<>>]
Deliver(rs, a, msg) == [rs EXCEPT ![a].got = Append(@, msg)]

(* --------------------------- Store actor ------------------------------ *)
\* Store::create_args(backend) / create_args((backend, bus))
StoreArgs(name, bus) == [name |-> name, bus |-> bus]

\* Receive<Commit<M>>: clone the handles, spawn the commit task
StoreReceiveCommit ==
    /\ storeMail # <<>>
    /\ Head(storeMail).kind = "Commit"
    /\ storeMail' = Tail(storeMail)
    /\ commitTasks' = Append(commitTasks,
            [c |-> Head(storeMail).c,
             id |-> entity_id(Head(storeMail).c.event),
             bus |-> store.bus,
             topic |-> topic_name(store.name),
             event |-> Head(storeMail).c.event,
             pc |-> "commit",
             pos |-> 0])
    /\ UNCHANGED <<backend, store, snapTasks, listTasks, busMail, subEvents,
                   replies, clock>>
    /\ UNCHANGED entityVars

\* where the commit task goes once store.commit(c).await has returned r:
\* .expect("commit message"), then if bus.is_some()
AfterCommit_ignoresError(r, bus) == IF bus THEN "publish" ELSE "done"

AfterCommit(r, bus) ==
    IF r.tag # "Ok" THEN "panicked" ELSE IF bus THEN "publish" ELSE "done"

\* the commit task: store.commit(c).await returns r; an accepted commit is
\* in the id's sequence (pos: the place it took, kept to state properties)
CommitTaskCommit(t, r) ==
    /\ commitTasks[t].pc = "commit"
    /\ backend' = IF r.tag = "Ok" THEN commit(backend, commitTasks[t].c)
                  ELSE backend
    /\ commitTasks' = [commitTasks EXCEPT
            ![t].pc = AfterCommit(r, commitTasks[t].bus),
            ![t].pos = IF r.tag = "Ok"
                       THEN Len(change_list(backend, commitTasks[t].id)) + 1
                       ELSE 0]
    /\ UNCHANGED <<store, storeMail, snapTasks, listTasks, busMail, subEvents,
                   replies, clock>>
    /\ UNCHANGED entityVars

\* the commit task: bus.tell(Publish { topic, msg: event }, None)
CommitTaskPublish(t) ==
    /\ commitTasks[t].pc = "publish"
    /\ busMail' = Append(busMail, [topic |-> commitTasks[t].topic,
                                   msg |-> commitTasks[t].event])
    /\ commitTasks' = [commitTasks EXCEPT ![t].pc = "done"]
    /\ UNCHANGED <<backend, store, storeMail, snapTasks, listTasks, subEvents,
                   replies, clock>>
    /\ UNCHANGED entityVars

\* the bus delivers a Publish to the subscriber of its topic
BusDeliver ==
    /\ busMail # <<>>
    /\ busMail' = Tail(busMail)
    /\ subEvents' = IF Head(busMail).topic = SubTopic
                    THEN Append(subEvents, Head(busMail).msg)
                    ELSE subEvents
    /\ UNCHANGED <<backend, store, storeMail, commitTasks, snapTasks, listTasks,
                   replies, clock>>
    /\ UNCHANGED entityVars

\* Receive<(EntityId, DateTime<Utc>)>: spawn the snapshot task
StoreReceiveSnapshot ==
    /\ storeMail # <<>>
    /\ Head(storeMail).kind = "Snapshot"
    /\ storeMail' = Tail(storeMail)
    /\ snapTasks' = Append(snapTasks,
            [id |-> Head(storeMail).id,
             until |-> Head(storeMail).until,
             sender |-> Head(storeMail).sender,
             pc |-> "load",
             snapshot |-> None,
             seen |-> <<>>])
    /\ UNCHANGED <<backend, store, commitTasks, listTasks, busMail, subEvents,
                   replies, clock>>
    /\ UNCHANGED entityVars

\* the snapshot task: store.snapshot(id, until).await (seen: the sequence
\* change_list handed out, kept to state the properties)
SnapshotTaskLoad(t) ==
    /\ snapTasks[t].pc = "load"
    /\ \E r \in snapshot(backend, snapTasks[t].id, snapTasks[t].until) :
            snapTasks' = [snapTasks EXCEPT
                ![t].pc = IF r.tag = "Panic" THEN "panicked" ELSE "reply",
                ![t].snapshot = r,
                ![t].seen = change_list(backend, snapTasks[t].id)]
    /\ UNCHANGED <<backend, store, storeMail, commitTasks, listTasks, busMail,
                   subEvents, replies, clock>>
    /\ UNCHANGED entityVars

\* what the snapshot task sends back: snapshot.ok()
SnapshotReplyMsg(r) == ok(r)

\* the snapshot task: sender.unwrap().try_tell(snapshot.ok(), None)
SnapshotTaskReply(t) ==
    /\ snapTasks[t].pc = "reply"
    /\ IF snapTasks[t].sender = NoSender
       THEN /\ snapTasks' = [snapTasks EXCEPT ![t].pc = "panicked"]
            /\ UNCHANGED replies
       ELSE /\ snapTasks' = [snapTasks EXCEPT ![t].pc = "done"]
            /\ replies' = Deliver(replies, snapTasks[t].sender,
                                  SnapshotReplyMsg(snapTasks[t].snapshot))
    /\ UNCHANGED <<backend, store, storeMail, commitTasks, listTasks, busMail,
                   subEvents, clock>>
    /\ UNCHANGED entityVars

\* Receive<DateTime<Utc>>: spawn the snapshot-list task
StoreReceiveSnapshotList ==
    /\ storeMail # <<>>
    /\ Head(storeMail).kind = "SnapshotList"
    /\ storeMail' = Tail(storeMail)
    /\ listTasks' = Append(listTasks,
            [until |-> Head(storeMail).until,
             sender |-> Head(storeMail).sender,
             pc |-> "keys",
             keys |-> <<>>,
             at |-> EmptyStore,
             entities |-> <<>>,
             seen |-> <<>>])
    /\ UNCHANGED <<backend, store, commitTasks, snapTasks, busMail, subEvents,
                   replies, clock>>
    /\ UNCHANGED entityVars

\* the orders in which the keys stream may yield the ids of set S
Orders(S) ==
    {q \in [1..Cardinality(S) -> S] : \A i, j \in DOMAIN q : i # j => q[i] # q[j]}

\* the snapshot-list task: the keys() stream of entities(), read in one go
\* in an order the backend chooses (at: the table at that moment)
ListTaskKeys(t) ==
    /\ listTasks[t].pc = "keys"
    /\ \E q \in Orders(keys(backend)) :
        listTasks' = [listTasks EXCEPT
            ![t].keys = q,
            ![t].at = backend,
            ![t].pc = IF q = <<>> THEN "reply" ELSE "entities"]
    /\ UNCHANGED <<backend, store, storeMail, commitTasks, snapTasks, busMail,
                   subEvents, replies, clock>>
    /\ UNCHANGED entityVars

\* one element of entities().and_then(|entity| entity.travel_to(until)):
\* self.get(id), then the replay
entity_travel_wrongId(b, id, until) ==
    LET g == get(b, CHOOSE k \in keys(b) : \A j \in keys(b) : k <= j)
    IN  IF g.tag = "Ok" THEN travel_to(g.val, until) ELSE {g}

entity_travel_hidesFailure(b, id, until) ==
    LET g == get(b, id)
        rs == IF g.tag = "Ok" THEN travel_to(g.val, until) ELSE {g}
    IN  {IF r.tag = "Ok" THEN r ELSE Ok(TestCount(id, 0)) : r \in rs}

entity_travel(b, id, until) ==
    LET g == get(b, id)
    IN  IF g.tag = "Ok" THEN travel_to(g.val, until) ELSE {g}

\* the snapshot-list task: the next id of the stream; try_collect stops at
\* the first error and .expect("list entities") panics on it
ListTaskNext(t) ==
    /\ listTasks[t].pc = "entities"
    /\ LET id == Head(listTasks[t].keys)
       IN  \E r \in entity_travel(backend, id, listTasks[t].until) :
            listTasks' = [listTasks EXCEPT
                ![t].keys = Tail(@),
                ![t].entities = IF r.tag = "Ok" THEN Append(@, r.val) ELSE @,
                ![t].seen = Append(@, change_list(backend, id)),
                ![t].pc = IF r.tag # "Ok" THEN "panicked"
                          ELSE IF Tail(listTasks[t].keys) = <<>> THEN "reply"
                          ELSE "entities"]
    /\ UNCHANGED <<backend, store, storeMail, commitTasks, snapTasks, busMail,
                   subEvents, replies, clock>>
    /\ UNCHANGED entityVars

\* the snapshot-list task: sender.unwrap().try_tell(entities, None)
ListTaskReply(t) ==
    /\ listTasks[t].pc = "reply"
    /\ IF listTasks[t].sender = NoSender
       THEN /\ listTasks' = [listTasks EXCEPT ![t].pc = "panicked"]
            /\ UNCHANGED replies
       ELSE /\ listTasks' = [listTasks EXCEPT ![t].pc = "done"]
            /\ replies' = Deliver(replies, listTasks[t].sender,
                                  [tag |-> "Vec", val |-> listTasks[t].entities])
    /\ UNCHANGED <<backend, store, storeMail, commitTasks, snapTasks, busMail,
                   subEvents, clock>>
    /\ UNCHANGED entityVars

(* ---------------------- clients of the Store -------------------------- *)
\* the in-memory backend accepts every commit; the CommitStore contract
\* lets a backend refuse one (CommitResult)
Accepts == {Ok("unit")}
MayRefuse == {Ok("unit"), Err("CantChange")}

\* EntityIds are opaque: the i-th distinct id the clients name is called i
Named ==
    {entity_id(storeMail[i].c.event) :
        i \in {j \in DOMAIN storeMail : storeMail[j].kind = "Commit"}}
    \cup {storeMail[i].id :
        i \in {j \in DOMAIN storeMail : storeMail[j].kind = "Snapshot"}}
    \cup {commitTasks[i].id : i \in DOMAIN commitTasks}
    \cup {snapTasks[i].id : i \in DOMAIN snapTasks}
Nameable == {id \in Ids : id <= Cardinality(Named) + 1}

\* store.tell(Event::..., None)
ClientTellCommit(e) ==
    /\ CommitsTold < MaxCommits
    /\ entity_id(e) \in Nameable
    /\ storeMail' = Append(storeMail,
            [kind |-> "Commit", c |-> CommitFrom(e, clock), sender |-> NoSender])
    /\ UNCHANGED <<backend, store, commitTasks, snapTasks, listTasks, busMail,
                   subEvents, replies, clock>>
    /\ UNCHANGED entityVars

\* ask(&sys, &store, (id, Utc::now()))
ClientAskSnapshot(id) ==
    /\ QueriesAsked < MaxQueries
    /\ id \in Nameable
    /\ replies' = Append(replies, NewAsk("query"))
    /\ storeMail' = Append(storeMail,
            [kind |-> "Snapshot", id |-> id, until |-> clock,
             sender |-> Len(replies) + 1])
    /\ UNCHANGED <<backend, store, commitTasks, snapTasks, listTasks, busMail,
                   subEvents, clock>>
    /\ UNCHANGED entityVars

\* ask(&sys, &store, Utc::now())
ClientAskSnapshotList ==
    /\ QueriesAsked < MaxQueries
    /\ replies' = Append(replies, NewAsk("query"))
    /\ storeMail' = Append(storeMail,
            [kind |-> "SnapshotList", until |-> clock,
             sender |-> Len(replies) + 1])
    /\ UNCHANGED <<backend, store, commitTasks, snapTasks, listTasks, busMail,
                   subEvents, clock>>
    /\ UNCHANGED entityVars

(* ------------- a Store actor on its own (tests of store.rs) ----------- *)
InitWith(st) ==
    /\ backend = EmptyStore
    /\ store = st
    /\ storeMail = <<>>
    /\ commitTasks = <<>>
    /\ snapTasks = <<>>
    /\ listTasks = <<>>
    /\ busMail = <<>>
    /\ subEvents = <<>>
    /\ replies = <<>>
    /\ clock = 0
    /\ entityMail = <<>>
    /\ cmdTasks = <<>>
    /\ esLock = 0
    /\ nextId = 0

\* the Store's tasks that answer queries
QueryTasks ==
    \/ \E t \in DOMAIN snapTasks : SnapshotTaskLoad(t)
    \/ \E t \in DOMAIN snapTasks : SnapshotTaskReply(t)
    \/ \E t \in DOMAIN listTasks : ListTaskKeys(t)
    \/ \E t \in DOMAIN listTasks : ListTaskNext(t)
    \/ \E t \in DOMAIN listTasks : ListTaskReply(t)

\* tests::load_snapshot, non_existing_entity, load_list_of_snapshots:
\* actor_of_args::<Store<TestCount, _>, _>("test-counts", MemStore::new())
InitStore == InitWith(StoreArgs("test-counts", FALSE))

NextStore ==
    \/ \E e \in ClientEvents : ClientTellCommit(e)
    \/ \E id \in Ids : ClientAskSnapshot(id)
    \/ ClientAskSnapshotList
    \/ StoreReceiveCommit
    \/ StoreReceiveSnapshot
    \/ StoreReceiveSnapshotList
    \/ \E t \in DOMAIN commitTasks : \E r \in Accepts : CommitTaskCommit(t, r)
    \/ QueryTasks

SpecStore == InitStore /\ [][NextStore]_vars

\* tests::broadcast_event: a Store with a bus and one subscriber of its
\* topic, over a backend that may refuse commits
InitBus == InitWith(StoreArgs("test-counts", TRUE))

NextBus ==
    \/ \E e \in ClientEvents : ClientTellCommit(e)
    \/ StoreReceiveCommit
    \/ \E t \in DOMAIN commitTasks : \E r \in MayRefuse : CommitTaskCommit(t, r)
    \/ \E t \in DOMAIN commitTasks : CommitTaskPublish(t)
    \/ BusDeliver

SpecBus == InitBus /\ [][NextBus]_vars

(* ------------- a Store queried about the past (time travel) ----------- *)
\* ask(&sys, &store, (id, time)): the message carries any DateTime, now,
\* earlier or later
ClientAskSnapshotAt(id, time) ==
    /\ QueriesAsked < MaxQueries
    /\ replies' = Append(replies, NewAsk("query"))
    /\ storeMail' = Append(storeMail,
            [kind |-> "Snapshot", id |-> id, until |-> time,
             sender |-> Len(replies) + 1])
    /\ UNCHANGED <<backend, store, commitTasks, snapTasks, listTasks, busMail,
                   subEvents, clock>>
    /\ UNCHANGED entityVars

\* the history of one entity (tests::load_snapshot): commits of its Create
\* and its changes, made at any instants up to now
TimeEvents == {e \in ClientEvents : entity_id(e) = 1}
TimeCommits == {CommitFrom(e, w) : e \in TimeEvents, w \in 0..MaxTime}
TimeLogs == UNION {[1..n -> TimeCommits] : n \in 1..MaxCommits}

\* a Store whose backend already holds the history
InitTime ==
    /\ backend \in {[id \in {1} |-> log] : log \in TimeLogs}
    /\ store = StoreArgs("test-counts", FALSE)
    /\ storeMail = <<>>
    /\ commitTasks = <<>>
    /\ snapTasks = <<>>
    /\ listTasks = <<>>
    /\ busMail = <<>>
    /\ subEvents = <<>>
    /\ replies = <<>>
    /\ clock = MaxTime
    /\ entityMail = <<>>
    /\ cmdTasks = <<>>
    /\ esLock = 0
    /\ nextId = 0

NextTime ==
    \/ \E time \in 0..MaxTime : ClientAskSnapshotAt(1, time)
    \/ StoreReceiveSnapshot
    \/ \E t \in DOMAIN snapTasks : SnapshotTaskLoad(t)
    \/ \E t \in DOMAIN snapTasks : SnapshotTaskReply(t)

SpecTime == InitTime /\ [][NextTime]_vars

(* --------- a Store replaying a stored history (load_snapshot) --------- *)
\* the changes of tests::load_snapshot, and one that takes a count to the
\* end of i16
ReplayOps == {Add(15), Add(5), Sub(9), Add(31), Add(32767)}
ReplayChanges == {CommitFrom(Change(1, o), 0) : o \in ReplayOps}
\* Create(TestCount::default()) followed by up to MaxChanges changes
ReplayLogs ==
    {<<CommitFrom(Create(TestCount(1, n)), 0)>> \o cs :
        n \in InitCounts,
        cs \in UNION {[1..k -> ReplayChanges] : k \in 0..MaxChanges}}

\* a Store whose backend already holds the history
InitReplay ==
    /\ backend \in {[id \in {1} |-> log] : log \in ReplayLogs}
    /\ store = StoreArgs("test-counts", FALSE)
    /\ storeMail = <<>>
    /\ commitTasks = <<>>
    /\ snapTasks = <<>>
    /\ listTasks = <<>>
    /\ busMail = <<>>
    /\ subEvents = <<>>
    /\ replies = <<>>
    /\ clock = 0
    /\ entityMail = <<>>
    /\ cmdTasks = <<>>
    /\ esLock = 0
    /\ nextId = 0

NextReplay ==
    \/ ClientAskSnapshot(1)
    \/ StoreReceiveSnapshot
    \/ \E t \in DOMAIN snapTasks : SnapshotTaskLoad(t)
    \/ \E t \in DOMAIN snapTasks : SnapshotTaskReply(t)

SpecReplay == InitReplay /\ [][NextReplay]_vars

(* ------------ readers of one entity while it is written --------------- *)
\* at least two Snapshot queries can be in flight together
MaxReaders == MaxQueries + 1

\* ask(&sys, &store, (id, Utc::now())), by one of several readers
ReaderAskSnapshot(id) ==
    /\ QueriesAsked < MaxReaders
    /\ replies' = Append(replies, NewAsk("query"))
    /\ storeMail' = Append(storeMail,
            [kind |-> "Snapshot", id |-> id, until |-> clock,
             sender |-> Len(replies) + 1])
    /\ UNCHANGED <<backend, store, commitTasks, snapTasks, listTasks, busMail,
                   subEvents, clock>>
    /\ UNCHANGED entityVars

InitReaders == InitWith(StoreArgs("test-counts", FALSE))

NextReaders ==
    \/ \E e \in TimeEvents : ClientTellCommit(e)
    \/ ReaderAskSnapshot(1)
    \/ StoreReceiveCommit
    \/ StoreReceiveSnapshot
    \/ \E t \in DOMAIN commitTasks : \E r \in Accepts : CommitTaskCommit(t, r)
    \/ \E t \in DOMAIN snapTasks : SnapshotTaskLoad(t)
    \/ \E t \in DOMAIN snapTasks : SnapshotTaskReply(t)

SpecReaders == InitReaders /\ [][NextReaders]_vars

(* --------------------------- Entity actor ----------------------------- *)
\* #[derive(EntityName)] struct Test
NAME == "Test"
\* pre_start: the child Store is made of the backend alone (no bus)
PreStartStore == StoreArgs(NAME \o "_store", FALSE)

\* tests::TestCmd
Create42 == [op |-> "Create42"]
Create99 == [op |-> "Create99"]
Double(id) == [op |-> "Double", id |-> id]
\* Query
QueryOne(id) == [q |-> "One", id |-> id]
QueryAll == [q |-> "All"]

\* commands sent to the Entity so far
CmdsSent ==
    Len(cmdTasks) + Len(SelectSeq(entityMail, LAMBDA m : m.kind = "Cmd"))

\* Entity::recv, CQRS::Cmd: clone store and es, spawn the command task
EntityRecvCmd ==
    /\ entityMail # <<>>
    /\ Head(entityMail).kind = "Cmd"
    /\ entityMail' = Tail(entityMail)
    /\ cmdTasks' = Append(cmdTasks,
            [cmd |-> Head(entityMail).cmd,
             sender |-> Head(entityMail).sender,
             pc |-> "lock",
             ask |-> 0,
             res |-> None,
             commit |-> None])
    /\ UNCHANGED <<esLock, nextId, replies, clock>>
    /\ UNCHANGED storeVars

\* Entity::recv, CQRS::Query -> Receive<Query>: tell the Store, keeping
\* the sender
EntityReceiveQuery_waitsForLock ==
    /\ esLock = 0
    /\ entityMail # <<>>
    /\ Head(entityMail).kind = "Query"
    /\ entityMail' = Tail(entityMail)
    /\ storeMail' = Append(storeMail,
            IF Head(entityMail).q.q = "One"
            THEN [kind |-> "Snapshot", id |-> Head(entityMail).q.id,
                  until |-> clock, sender |-> Head(entityMail).sender]
            ELSE [kind |-> "SnapshotList", until |-> clock,
                  sender |-> Head(entityMail).sender])
    /\ UNCHANGED <<cmdTasks, esLock, nextId, replies, clock>>
    /\ UNCHANGED <<backend, store, commitTasks, snapTasks, listTasks, busMail,
                   subEvents>>

EntityReceiveQuery_dropsSender ==
    /\ entityMail # <<>>
    /\ Head(entityMail).kind = "Query"
    /\ entityMail' = Tail(entityMail)
    /\ storeMail' = Append(storeMail,
            IF Head(entityMail).q.q = "One"
            THEN [kind |-> "Snapshot", id |-> Head(entityMail).q.id,
                  until |-> clock, sender |-> NoSender]
            ELSE [kind |-> "SnapshotList", until |-> clock,
                  sender |-> NoSender])
    /\ UNCHANGED <<cmdTasks, esLock, nextId, replies, clock>>
    /\ UNCHANGED <<backend, store, commitTasks, snapTasks, listTasks, busMail,
                   subEvents>>

EntityReceiveQuery ==
    /\ entityMail # <<>>
    /\ Head(entityMail).kind = "Query"
    /\ entityMail' = Tail(entityMail)
    /\ storeMail' = Append(storeMail,
            IF Head(entityMail).q.q = "One"
            THEN [kind |-> "Snapshot", id |-> Head(entityMail).q.id,
                  until |-> clock, sender |-> Head(entityMail).sender]
            ELSE [kind |-> "SnapshotList", until |-> clock,
                  sender |-> Head(entityMail).sender])
    /\ UNCHANGED <<cmdTasks, esLock, nextId, replies, clock>>
    /\ UNCHANGED <<backend, store, commitTasks, snapTasks, listTasks, busMail,
                   subEvents>>

\* futures::lock::Mutex::lock: the future resolves once the mutex is free
CanLock_always(lock) == TRUE

CanLock(lock) == lock = 0

\* the command task: es.unwrap().lock().await
CmdTaskLock(t) ==
    /\ cmdTasks[t].pc = "lock"
    /\ CanLock(esLock)
    /\ esLock' = t
    /\ cmdTasks' = [cmdTasks EXCEPT ![t].pc = "handle"]
    /\ UNCHANGED <<entityMail, nextId, replies, clock>>
    /\ UNCHANGED storeVars

\* tests::Test::handle_command, Create42 / Create99: the event is built
\* without an await (TestCount::new draws EntityId::new()), the handler
\* returns Ok(event.into()) and the guard is dropped with the statement
CmdTaskHandleCreate(t) ==
    /\ cmdTasks[t].pc = "handle"
    /\ cmdTasks[t].cmd.op \in {"Create42", "Create99"}
    /\ nextId' = nextId + 1
    /\ LET n == IF cmdTasks[t].cmd.op = "Create42" THEN 42 ELSE 99
       IN  cmdTasks' = [cmdTasks EXCEPT
                ![t].pc = "tell",
                ![t].commit = Some(CommitFrom(
                                Create(TestCount(nextId + 1, n)), clock))]
    /\ esLock' = 0
    /\ UNCHANGED <<entityMail, replies, clock>>
    /\ UNCHANGED storeVars

\* handle_command, Double(id): ask(&self.sys, &self.entity, Query::One(id))
CmdTaskHandleDouble(t) ==
    /\ cmdTasks[t].pc = "handle"
    /\ cmdTasks[t].cmd.op = "Double"
    /\ replies' = Append(replies, NewAsk("handler"))
    /\ entityMail' = Append(entityMail,
            [kind |-> "Query", q |-> QueryOne(cmdTasks[t].cmd.id),
             sender |-> Len(replies) + 1])
    /\ cmdTasks' = [cmdTasks EXCEPT ![t].pc = "await",
                                    ![t].ask = Len(replies) + 1]
    /\ UNCHANGED <<esLock, nextId, clock>>
    /\ UNCHANGED storeVars

\* what Double makes of the answer: res.ok_or("Not found")?, then
\* Event::Change(res.id(), Op::Add(res.count))
DoubleEvent(res) ==
    IF res.tag = "None"
    THEN Err("Not found")
    ELSE Ok(Change(res.val.id, Add(res.val.count)))

\* handle_command, Double(id), once the ask is answered; on Err the task
\* panics in .expect("Failed handling command"); either way the guard is
\* dropped
CmdTaskResumeDouble_repliesError(t) ==
    /\ cmdTasks[t].pc = "await"
    /\ replies[cmdTasks[t].ask].got # <<>>
    /\ LET res == Head(replies[cmdTasks[t].ask].got)
           ev == DoubleEvent(res)
       IN  /\ cmdTasks' = [cmdTasks EXCEPT
                    ![t].res = Some(res),
                    ![t].pc = IF ev.tag = "Ok" THEN "tell" ELSE "panicked",
                    ![t].commit = IF ev.tag = "Ok"
                                  THEN Some(CommitFrom(ev.val, clock)) ELSE None]
           /\ replies' = IF ev.tag = "Err" /\ cmdTasks[t].sender # NoSender
                          THEN Deliver(replies, cmdTasks[t].sender, ev)
                          ELSE replies
    /\ esLock' = 0
    /\ UNCHANGED <<entityMail, nextId, clock>>
    /\ UNCHANGED storeVars

CmdTaskResumeDouble(t) ==
    /\ cmdTasks[t].pc = "await"
    /\ replies[cmdTasks[t].ask].got # <<>>
    /\ LET res == Head(replies[cmdTasks[t].ask].got)
           ev == DoubleEvent(res)
       IN  cmdTasks' = [cmdTasks EXCEPT
                ![t].res = Some(res),
                ![t].pc = IF ev.tag = "Ok" THEN "tell" ELSE "panicked",
                ![t].commit = IF ev.tag = "Ok"
                              THEN Some(CommitFrom(ev.val, clock)) ELSE None]
    /\ esLock' = 0
    /\ UNCHANGED <<entityMail, nextId, replies, clock>>
    /\ UNCHANGED storeVars

\* the command task: store.tell(commit, None)
CmdTaskTell_tellsTwice(t) ==
    /\ cmdTasks[t].pc = "tell"
    /\ storeMail' = storeMail \o
            << [kind |-> "Commit", c |-> cmdTasks[t].commit.val,
                sender |-> NoSender],
               [kind |-> "Commit", c |-> cmdTasks[t].commit.val,
                sender |-> NoSender] >>
    /\ cmdTasks' = [cmdTasks EXCEPT
            ![t].pc = IF cmdTasks[t].sender = NoSender THEN "done" ELSE "ack"]
    /\ UNCHANGED <<entityMail, esLock, nextId, replies, clock>>
    /\ UNCHANGED <<backend, store, commitTasks, snapTasks, listTasks, busMail,
                   subEvents>>

CmdTaskTell(t) ==
    /\ cmdTasks[t].pc = "tell"
    /\ storeMail' = Append(storeMail,
            [kind |-> "Commit", c |-> cmdTasks[t].commit.val,
             sender |-> NoSender])
    /\ cmdTasks' = [cmdTasks EXCEPT
            ![t].pc = IF cmdTasks[t].sender = NoSender THEN "done" ELSE "ack"]
    /\ UNCHANGED <<entityMail, esLock, nextId, replies, clock>>
    /\ UNCHANGED <<backend, store, commitTasks, snapTasks, listTasks, busMail,
                   subEvents>>

\* what the command task sends to the command's sender: commit.entity_id()
AckMsg_firstId(c) == [tag |-> "Id", val |-> 1]

AckMsg(c) == [tag |-> "Id", val |-> entity_id(c.event)]

\* the command task: if let Some(sender) = sender { sender.try_tell(..) }
CmdTaskAck(t) ==
    /\ cmdTasks[t].pc = "ack"
    /\ replies' = Deliver(replies, cmdTasks[t].sender,
                          AckMsg(cmdTasks[t].commit.val))
    /\ cmdTasks' = [cmdTasks EXCEPT ![t].pc = "done"]
    /\ UNCHANGED <<entityMail, esLock, nextId, clock>>
    /\ UNCHANGED storeVars

(* ---------------------- clients of the Entity ------------------------- *)
\* the ids a client has learnt from the acknowledgements of its commands
AckedIds ==
    {replies[a].got[1].val :
        a \in {b \in DOMAIN replies : replies[b].by = "cmd" /\ replies[b].got # <<>>}}

\* the commands a client sends: as in tests::command_n_query, Create99
\* comes after a Create42, and Double names an id the client has learnt, or
\* one that does not exist
ClientCmds ==
    {Create42}
    \cup (IF \E t \in DOMAIN cmdTasks : cmdTasks[t].cmd = Create42
          THEN {Create99} ELSE {})
    \cup {Double(id) : id \in AckedIds \cup {NoSuchId}}

\* the client is one thread, as in tests::command_n_query: block_on(ask(..))
\* returns with the reply, tell returns at once
ClientReady ==
    \A a \in DOMAIN replies : replies[a].by = "handler" \/ replies[a].got # <<>>

\* ask(&sys, &entity, CQRS::Cmd(cmd)) / entity.tell(CQRS::Cmd(cmd), None)
ClientSendCmd(cmd, asks) ==
    /\ ClientReady
    /\ CmdsSent < MaxCmds
    /\ replies' = IF asks THEN Append(replies, NewAsk("cmd")) ELSE replies
    /\ entityMail' = Append(entityMail,
            [kind |-> "Cmd", cmd |-> cmd,
             sender |-> IF asks THEN Len(replies) + 1 ELSE NoSender])
    /\ UNCHANGED <<cmdTasks, esLock, nextId, clock>>
    /\ UNCHANGED storeVars

\* ask(&sys, &entity, Query::One(id)) / ask(&sys, &entity, Query::All)
ClientAskQuery(q) ==
    /\ ClientReady
    /\ QueriesAsked < MaxQueries
    /\ replies' = Append(replies, NewAsk("query"))
    /\ entityMail' = Append(entityMail,
            [kind |-> "Query", q |-> q, sender |-> Len(replies) + 1])
    /\ UNCHANGED <<cmdTasks, esLock, nextId, clock>>
    /\ UNCHANGED storeVars

\* tests::command_n_query: an Entity<Test, MemStore<_>> after pre_start
InitEntity == InitWith(PreStartStore)

NextEntity ==
    \/ \E cmd \in ClientCmds : \E asks \in BOOLEAN : ClientSendCmd(cmd, asks)
    \/ \E id \in AckedIds : ClientAskQuery(QueryOne(id))
    \/ ClientAskQuery(QueryAll)
    \/ EntityRecvCmd
    \/ EntityReceiveQuery
    \/ \E t \in DOMAIN cmdTasks : CmdTaskLock(t)
    \/ \E t \in DOMAIN cmdTasks : CmdTaskHandleCreate(t)
    \/ \E t \in DOMAIN cmdTasks : CmdTaskHandleDouble(t)
    \/ \E t \in DOMAIN cmdTasks : CmdTaskResumeDouble(t)
    \/ \E t \in DOMAIN cmdTasks : CmdTaskTell(t)
    \/ \E t \in DOMAIN cmdTasks : CmdTaskAck(t)
    \/ StoreReceiveCommit
    \/ StoreReceiveSnapshot
    \/ StoreReceiveSnapshotList
    \/ \E t \in DOMAIN commitTasks : \E r \in Accepts : CommitTaskCommit(t, r)
    \/ QueryTasks

SpecEntity == InitEntity /\ [][NextEntity]_vars

(* ------------------------------ Manager ------------------------------- *)
\* Manager::ask: channel::<R>() and the temporary AskActor made of tx.
\* got: the messages told to the actor (its mailbox, kept whole), handled:
\* how many of them recv has taken, tx: whether the Option still holds the
\* channel's sender, rx: what the channel's receiver has been sent
AskActor(call) ==
    [by |-> "manager", call |-> call, got |-> <<>>, handled |-> 0,
     tx |-> TRUE, rx |-> <<>>, pc |-> "running"]

\* AskActor::recv(msg): tx.take().unwrap().send(msg).unwrap(), then
\* ctx.stop(&ctx.myself); the unwrap of an Option already taken panics
recv_neverStops(actor, msg) ==
    IF actor.tx
    THEN [actor EXCEPT !.rx = Append(@, msg), !.handled = @ + 1]
    ELSE [actor EXCEPT !.handled = @ + 1, !.pc = "panicked"]

recv(actor, msg) ==
    IF actor.tx
    THEN [actor EXCEPT !.tx = FALSE, !.rx = Append(@, msg),
                       !.handled = @ + 1, !.pc = "stopped"]
    ELSE [actor EXCEPT !.handled = @ + 1, !.pc = "panicked"]

\* the temporary actor takes the next message of its mailbox
AskActorRecv(a) ==
    /\ replies[a].by = "manager"
    /\ replies[a].pc = "running"
    /\ replies[a].handled < Len(replies[a].got)
    /\ replies' = [replies EXCEPT
            ![a] = recv(@, replies[a].got[replies[a].handled + 1])]
    /\ UNCHANGED <<entityMail, cmdTasks, esLock, nextId, clock>>
    /\ UNCHANGED storeVars

\* the ids the callers of Manager::command have been returned
ReturnedIds ==
    {replies[a].rx[1].val :
        a \in {b \in DOMAIN replies :
                /\ replies[b].by = "manager"
                /\ replies[b].call = "command"
                /\ replies[b].rx # <<>>}}

\* the commands callers hand to Manager::command
ManagerCmds == {Create42} \cup {Double(id) : id \in ReturnedIds \cup {NoSuchId}}

\* queries asked through Manager::query so far
ManagerQueries ==
    Len(SelectSeq(replies, LAMBDA r : r.by = "manager" /\ r.call = "query"))

\* the caller is one thread, as in tests::register_entities:
\* block_on(mgr.command(..)) returns once rx.await has the reply
ManagerReady ==
    \A a \in DOMAIN replies : replies[a].by = "manager" => replies[a].rx # <<>>

\* Manager::command(cmd): self.ask(self.entity(NAME), CQRS::Cmd(cmd)), up to
\* the await of rx
ManagerCommand(cmd) ==
    /\ ManagerReady
    /\ CmdsSent < MaxCmds
    /\ replies' = Append(replies, AskActor("command"))
    /\ entityMail' = Append(entityMail,
            [kind |-> "Cmd", cmd |-> cmd, sender |-> Len(replies) + 1])
    /\ UNCHANGED <<cmdTasks, esLock, nextId, clock>>
    /\ UNCHANGED storeVars

\* Manager::query(id): self.ask(self.entity(NAME), CQRS::Query(Query::One(id)))
ManagerQuery(id) ==
    /\ ManagerReady
    /\ ManagerQueries < MaxQueries
    /\ replies' = Append(replies, AskActor("query"))
    /\ entityMail' = Append(entityMail,
            [kind |-> "Query", q |-> QueryOne(id), sender |-> Len(replies) + 1])
    /\ UNCHANGED <<cmdTasks, esLock, nextId, clock>>
    /\ UNCHANGED storeVars

\* the Entity and its Store at work: everything but the clients
EntitySystem ==
    \/ EntityRecvCmd
    \/ EntityReceiveQuery
    \/ \E t \in DOMAIN cmdTasks : CmdTaskLock(t)
    \/ \E t \in DOMAIN cmdTasks : CmdTaskHandleCreate(t)
    \/ \E t \in DOMAIN cmdTasks : CmdTaskHandleDouble(t)
    \/ \E t \in DOMAIN cmdTasks : CmdTaskResumeDouble(t)
    \/ \E t \in DOMAIN cmdTasks : CmdTaskTell(t)
    \/ \E t \in DOMAIN cmdTasks : CmdTaskAck(t)
    \/ StoreReceiveCommit
    \/ StoreReceiveSnapshot
    \/ \E t \in DOMAIN commitTasks : \E r \in Accepts : CommitTaskCommit(t, r)
    \/ \E t \in DOMAIN snapTasks : SnapshotTaskLoad(t)
    \/ \E t \in DOMAIN snapTasks : SnapshotTaskReply(t)

\* a Manager with the Test entity registered (Manager::register)
InitManager == InitWith(PreStartStore)

NextManager ==
    \/ \E cmd \in ManagerCmds : ManagerCommand(cmd)
    \/ \E id \in ReturnedIds \cup {NoSuchId} : ManagerQuery(id)
    \/ \E a \in DOMAIN replies : AskActorRecv(a)
    \/ EntitySystem

SpecManager == InitManager /\ [][NextManager]_vars

\* the Entity under commands and single-entity queries: the handler's
\* Query::One (tests::Test::handle_command, Double) shares the mailboxes
\* with those of the client
NextCommands ==
    \/ \E cmd \in ClientCmds : \E asks \in BOOLEAN : ClientSendCmd(cmd, asks)
    \/ \E id \in AckedIds : ClientAskQuery(QueryOne(id))
    \/ EntitySystem

\* the executor polls every task that can make progress and the actor
\* kernel runs every non-empty mailbox: no enabled step of the Entity, its
\* Store or their tasks is put off for ever
FairEntity == InitEntity /\ [][NextCommands]_vars /\ WF_vars(EntitySystem)

(* ============================ properties ============================== *)
IsPrefix(p, q) == Len(p) <= Len(q) /\ SubSeq(q, 1, Len(p)) = p
\* a log as the replay expects it: one Create, then changes only
WellFormed(log) ==
    /\ log # <<>>
    /\ log[1].event.tag = "Create"
    /\ \A i \in 2..Len(log) : log[i].event.tag = "Change"
\* the model apply_change leaves behind when it returns
Applied(m, ch) == CHOOSE r \in apply_change(m, ch) : r # Panicked
\* m0 with apply_change applied for c1, then c2, ... then cn
RECURSIVE ReplayUpTo(_, _)
ReplayUpTo(log, n) ==
    IF n = 1
    THEN log[1].event.model
    ELSE Applied(ReplayUpTo(log, n - 1), log[n].event.change)
Replayed(log) == ReplayUpTo(log, Len(log))
\* number of places of sequence q holding x
Occurrences(x, q) == Cardinality({i \in DOMAIN q : q[i] = x})
HasCreate(log) == \E i \in DOMAIN log : log[i].event.tag = "Create"

\* the outcomes of applying apply_change to m0 for c1, then c2, ... then
\* c(n-1), left to right, log being <<Create(m0), c1, ..>>: the model, or
\* Panicked where apply_change panics at a step
RECURSIVE LeftToRight(_, _)
LeftToRight(log, n) ==
    IF n = 1
    THEN {log[1].event.model}
    ELSE UNION {IF m = Panicked
                THEN {Panicked}
                ELSE apply_change(m, log[n].event.change) :
                    m \in LeftToRight(log, n - 1)}
\* log with its changes in the opposite order
ChangesReversed(log) ==
    [i \in 1..Len(log) |-> IF i = 1 THEN log[1] ELSE log[Len(log) + 2 - i]]

\* C1: a Snapshot query for an id whose log is one Create(m0) followed by
\* changes c1..cn is answered Some(m), m being m0 with apply_change applied
\* for c1, then c2, ... then cn, in the order of the log: the task's result
\* is what that application gives, it panics only where apply_change does
\* (a count leaving i16 with overflow checks on), and its one reply is
\* Some(m).
C1_ReplayCorrectness ==
    \A t \in DOMAIN snapTasks :
        (snapTasks[t].pc \in {"reply", "done", "panicked"}
         /\ WellFormed(snapTasks[t].seen))
        => LET outs == LeftToRight(snapTasks[t].seen, Len(snapTasks[t].seen))
           IN  /\ snapTasks[t].snapshot
                    \in {IF m = Panicked THEN Panicked ELSE Ok(m) : m \in outs}
               /\ (snapTasks[t].pc = "panicked")
                    = (snapTasks[t].snapshot = Panicked)
               /\ snapTasks[t].pc = "done" =>
                    replies[snapTasks[t].sender].got
                        = <<Some(snapTasks[t].snapshot.val)>>

\* a log of four changes whose order matters (applied in the opposite order
\* a count would leave i16) is answered with the left-to-right result
C1_Witness ==
    \E t \in DOMAIN snapTasks :
        LET log == snapTasks[t].seen
        IN  /\ snapTasks[t].pc = "done"
            /\ WellFormed(log)
            /\ Len(log) = 5
            /\ \E m \in LeftToRight(log, Len(log)) :
                    /\ LeftToRight(log, Len(log)) = {m}
                    /\ m # Panicked
                    /\ m.count # log[1].event.model.count
                    /\ replies[snapTasks[t].sender].got = <<Some(m)>>
            /\ Panicked \in LeftToRight(ChangesReversed(log), Len(log))

\* C2: a Double(id) command sent after the Create of id was acknowledged
\* finds the created state when its handler queries the Store (never a
\* missing read).
C2_ReadYourOwnWrites ==
    \A t \in DOMAIN cmdTasks :
        (cmdTasks[t].cmd.op = "Double"
         /\ cmdTasks[t].cmd.id \in AckedIds
         /\ cmdTasks[t].res.tag = "Some")
        => cmdTasks[t].res.val.tag = "Some"

\* C3: whatever has been published on the Store's topic (in the bus or at
\* the subscriber) is an event whose commit is in the backend log, each
\* commit published at most once; a refused commit publishes nothing.
C3_PublishAfterPersist ==
    /\ \A i \in DOMAIN busMail : busMail[i].topic = topic_name(store.name)
    /\ \A e \in ClientEvents :
        Occurrences(e, subEvents)
            + Cardinality({i \in DOMAIN busMail : busMail[i].msg = e})
        <= Cardinality({t \in DOMAIN commitTasks :
                /\ commitTasks[t].event = e
                /\ commitTasks[t].pc = "done"
                /\ commitTasks[t].pos > 0
                /\ commitTasks[t].pos
                        <= Len(change_list(backend, commitTasks[t].id))
                /\ backend[commitTasks[t].id][commitTasks[t].pos]
                        = commitTasks[t].c})

C3_Witness ==
    /\ subEvents # <<>>
    /\ \E t \in DOMAIN commitTasks : commitTasks[t].pc = "panicked"

\* C4: a command task is inside handle_command (running or awaiting) only
\* while it holds the handler mutex, so no two are inside at once.
C4_HandlerMutualExclusion ==
    \A t \in DOMAIN cmdTasks :
        cmdTasks[t].pc \in {"handle", "await"} => esLock = t

C4_Witness ==
    \E t, u \in DOMAIN cmdTasks :
        /\ cmdTasks[t].pc = "await"
        /\ esLock = t
        /\ cmdTasks[u].pc = "lock"

\* C5: a Snapshot query that finds no commit for its id does not panic and
\* sends exactly one reply, None.
C5_UnknownId ==
    \A t \in DOMAIN snapTasks :
        (snapTasks[t].pc \in {"reply", "done", "panicked"}
         /\ snapTasks[t].seen = <<>>)
        => /\ snapTasks[t].pc # "panicked"
           /\ snapTasks[t].pc = "reply" =>
                replies[snapTasks[t].sender].got = <<>>
           /\ snapTasks[t].pc = "done" =>
                replies[snapTasks[t].sender].got = <<None>>

C5_Witness ==
    \E t \in DOMAIN snapTasks :
        /\ snapTasks[t].pc = "done"
        /\ snapTasks[t].seen = <<>>
        /\ replies[snapTasks[t].sender].got = <<None>>

\* C6: the reply of a SnapshotList query holds exactly one Model per id that
\* had a Create commit when the keys were read, and each Model is the replay
\* of the log of its own id.
C6_ListCompleteness ==
    \A t \in DOMAIN listTasks :
        listTasks[t].pc = "done" =>
            LET es == listTasks[t].entities
            IN  /\ replies[listTasks[t].sender].got
                        = <<[tag |-> "Vec", val |-> es]>>
                /\ {es[i].id : i \in DOMAIN es}
                        = {id \in DOMAIN listTasks[t].at :
                                HasCreate(listTasks[t].at[id])}
                /\ \A i, j \in DOMAIN es : es[i].id = es[j].id => i = j
                /\ \A i \in DOMAIN es :
                        /\ \A k \in DOMAIN listTasks[t].seen[i] :
                                entity_id(listTasks[t].seen[i][k].event)
                                    = es[i].id
                        /\ IsPrefix(listTasks[t].at[es[i].id],
                                    listTasks[t].seen[i])
                        /\ es[i] = Replayed(listTasks[t].seen[i])

C6_Witness ==
    \E t \in DOMAIN listTasks :
        /\ listTasks[t].pc = "done"
        /\ Len(listTasks[t].entities) = 2
        /\ replies[listTasks[t].sender].got
                = <<[tag |-> "Vec", val |-> listTasks[t].entities]>>

\* C7: the step that appends a commit for id A leaves the commit sequence,
\* and so the snapshot, of every other id B as it was.
C7_Isolation ==
    [][\A t \in DOMAIN commitTasks :
        (commitTasks[t].pc = "commit" /\ commitTasks'[t].pc # "commit")
        => \A b \in (Ids \cup DOMAIN backend \cup DOMAIN backend')
                        \ {commitTasks[t].id} :
                /\ change_list(backend', b) = change_list(backend, b)
                /\ snapshot(backend', b, clock) = snapshot(backend, b, clock)
      ]_vars

C7_Witness ==
    \E t, u \in DOMAIN commitTasks :
        /\ commitTasks[t].id # commitTasks[u].id
        /\ commitTasks[t].pos > 0
        /\ commitTasks[u].pos > 0

\* C8: a command with a reply address gets no reply before its handler has
\* returned and its commit has been told to the Store, and then exactly one,
\* the EntityId of that commit; the reply does not wait for the backend.
C8_CommandAck ==
    \A t \in DOMAIN cmdTasks :
        cmdTasks[t].sender # NoSender =>
            /\ cmdTasks[t].pc # "done" =>
                    replies[cmdTasks[t].sender].got = <<>>
            /\ cmdTasks[t].pc \in {"ack", "done"} =>
                    /\ cmdTasks[t].commit.tag = "Some"
                    /\ \/ \E i \in DOMAIN storeMail :
                            /\ storeMail[i].kind = "Commit"
                            /\ storeMail[i].c = cmdTasks[t].commit.val
                       \/ \E u \in DOMAIN commitTasks :
                            commitTasks[u].c = cmdTasks[t].commit.val
            /\ cmdTasks[t].pc = "done" =>
                    replies[cmdTasks[t].sender].got
                        = <<[tag |-> "Id",
                             val |-> entity_id(cmdTasks[t].commit.val.event)]>>

C8_Witness ==
    \E t \in DOMAIN cmdTasks :
        /\ cmdTasks[t].pc = "done"
        /\ cmdTasks[t].sender # NoSender
        /\ replies[cmdTasks[t].sender].got # <<>>
        /\ LET log == change_list(backend,
                            entity_id(cmdTasks[t].commit.val.event))
           IN  \A k \in DOMAIN log : log[k] # cmdTasks[t].commit.val

\* C9: every step leaves, for every id, the old commit sequence as a prefix
\* of the new one.
C9_AppendOnly ==
    [][\A id \in DOMAIN backend :
            /\ id \in DOMAIN backend'
            /\ IsPrefix(backend[id], backend'[id])]_vars

C9_Witness ==
    \E t \in DOMAIN commitTasks : commitTasks[t].pos >= 2

\* C10: two commits for the same id are in the id's log in the order in
\* which the Store received them.
C10_LogOrderIsMailboxOrder ==
    \A t, u \in DOMAIN commitTasks :
        (t < u
         /\ commitTasks[t].id = commitTasks[u].id
         /\ commitTasks[t].pos > 0
         /\ commitTasks[u].pos > 0)
        => commitTasks[t].pos < commitTasks[u].pos

\* the places holding reply address a: a message in a mailbox, or the task
\* spawned for it
Holders(a) ==
    Cardinality({i \in DOMAIN entityMail : entityMail[i].sender = a})
    + Cardinality({t \in DOMAIN cmdTasks : cmdTasks[t].sender = a})
    + Cardinality({i \in DOMAIN storeMail : storeMail[i].sender = a})
    + Cardinality({t \in DOMAIN snapTasks : snapTasks[t].sender = a})
    + Cardinality({t \in DOMAIN listTasks : listTasks[t].sender = a})

\* C11: each Manager command/query call has one temporary responder of its
\* own; the responder is told at most one message, forwards it to the
\* caller's channel and stops; the caller gets exactly that message, never a
\* second one, and the responder never panics.
C11_OneShotAsk ==
    \A a \in DOMAIN replies :
        replies[a].by = "manager" =>
            /\ Holders(a) = 1
            /\ Len(replies[a].got) <= 1
            /\ replies[a].pc # "panicked"
            /\ replies[a].handled = 0 =>
                    /\ replies[a].pc = "running"
                    /\ replies[a].rx = <<>>
            /\ replies[a].handled >= 1 =>
                    /\ replies[a].pc = "stopped"
                    /\ replies[a].handled = 1
                    /\ replies[a].rx = <<replies[a].got[1]>>

C11_Witness ==
    \E a, b \in DOMAIN replies :
        /\ replies[a].by = "manager"
        /\ replies[a].call = "command"
        /\ replies[a].pc = "stopped"
        /\ replies[a].rx = <<[tag |-> "Id", val |-> 1]>>
        /\ replies[b].by = "manager"
        /\ replies[b].call = "query"
        /\ replies[b].pc = "stopped"
        /\ replies[b].rx = <<Some(TestCount(1, 42))>>

\* C12: command tasks acquire the handler mutex in the order in which the
\* Entity received their commands: a later command's task is past the lock
\* only when every earlier command's task is.
C12_AdmissionOrder ==
    \A t, u \in DOMAIN cmdTasks :
        (t < u /\ cmdTasks[u].pc # "lock") => cmdTasks[t].pc # "lock"

\* C13: a command task that holds the handler mutex and awaits the answer
\* of the Query its handler sent to its own Entity always gets past the
\* await and releases the mutex; and a message at the head of the Entity's
\* mailbox can always be received, whoever holds the mutex.
C13_NoHandlerDeadlock ==
    /\ \A t \in 1..MaxCmds :
            (t \in DOMAIN cmdTasks /\ cmdTasks[t].pc = "await")
            ~> (/\ t \in DOMAIN cmdTasks
                /\ cmdTasks[t].pc \in {"tell", "ack", "done", "panicked"}
                /\ esLock # t)
    /\ [](entityMail # <<>> => ENABLED (EntityRecvCmd \/ EntityReceiveQuery))

C13_Witness ==
    \E t, u \in DOMAIN cmdTasks :
        /\ cmdTasks[t].cmd.op = "Double"
        /\ cmdTasks[t].res.tag = "Some"
        /\ cmdTasks[t].res.val.tag = "Some"
        /\ cmdTasks[t].pc = "done"
        /\ esLock = 0
        /\ u # t
        /\ cmdTasks[u].pc = "done"

\* C14: for an id whose first stored commit is a Change, get and snapshot
\* return the error NotFound, and a Snapshot query for it is answered None,
\* as for an id without commits.
C14_MalformedIsNotFound ==
    /\ \A id \in DOMAIN backend :
            backend[id][1].event.tag = "Change" =>
                /\ get(backend, id) = Err("NotFound")
                /\ snapshot(backend, id, clock) = {Err("NotFound")}
    /\ \A t \in DOMAIN snapTasks :
            (/\ snapTasks[t].pc \in {"reply", "done", "panicked"}
             /\ snapTasks[t].seen # <<>>
             /\ snapTasks[t].seen[1].event.tag = "Change")
            => /\ snapTasks[t].pc # "panicked"
               /\ snapTasks[t].pc = "done" =>
                    replies[snapTasks[t].sender].got = <<None>>

\* C15: in every state of the backend, the first commit of every id that
\* has commits is a Create.
C15_FirstCommitIsCreate ==
    \A id \in DOMAIN backend :
        backend[id] # <<>> => backend[id][1].event.tag = "Create"

\* C16: the task of a Snapshot query that came with a reply address never
\* dies without replying; it sends exactly one reply, Some(model) when the
\* backend's snapshot succeeded and None when it failed in any way.
C16_SnapshotAlwaysReplies ==
    \A t \in DOMAIN snapTasks :
        snapTasks[t].sender # NoSender =>
            /\ snapTasks[t].pc # "panicked"
            /\ Len(replies[snapTasks[t].sender].got) <= 1
            /\ snapTasks[t].pc = "done" =>
                    replies[snapTasks[t].sender].got
                        = <<IF snapTasks[t].snapshot.tag = "Ok"
                            THEN Some(snapTasks[t].snapshot.val) ELSE None>>

\* C17: travel_to folds every remaining commit whatever its timestamp: for
\* one log, snapshot gives the same result for any two times, the result of
\* to_present, and a Snapshot query for a time earlier than every commit is
\* answered with the replay of the whole log.
C17_TimeNotEnforced ==
    /\ \A id \in DOMAIN backend : \A t1, t2 \in 0..MaxTime :
            /\ snapshot(backend, id, t1) = snapshot(backend, id, t2)
            /\ get(backend, id).tag = "Ok" =>
                    snapshot(backend, id, t1)
                        = to_present(get(backend, id).val, clock)
            /\ WellFormed(backend[id]) =>
                    snapshot(backend, id, t1) = {Ok(Replayed(backend[id]))}
    /\ \A t \in DOMAIN snapTasks :
            (snapTasks[t].pc = "done" /\ WellFormed(snapTasks[t].seen))
            => replies[snapTasks[t].sender].got
                    = <<Some(Replayed(snapTasks[t].seen))>>

C17_Witness ==
    \E t \in DOMAIN snapTasks :
        /\ snapTasks[t].pc = "done"
        /\ WellFormed(snapTasks[t].seen)
        /\ Len(snapTasks[t].seen) >= 2
        /\ \A k \in DOMAIN snapTasks[t].seen :
                snapTasks[t].until < snapTasks[t].seen[k].when
        /\ replies[snapTasks[t].sender].got
                = <<Some(Replayed(snapTasks[t].seen))>>
        /\ Replayed(snapTasks[t].seen).count
                # snapTasks[t].seen[1].event.model.count

\* C18: once the commit task of the Entity's own Store has persisted a
\* commit and finished, the commit's event has been published on the bus (it
\* is on its way to, or at, the subscriber).
C18_EntityEventsPublished ==
    \A t \in DOMAIN commitTasks :
        (commitTasks[t].pc = "done" /\ commitTasks[t].pos > 0)
        => \/ \E i \in DOMAIN busMail : busMail[i].msg = commitTasks[t].event
           \/ \E i \in DOMAIN subEvents : subEvents[i] = commitTasks[t].event

\* C19: when the lookup or the replay of one id fails during a SnapshotList
\* query, the task stops there and the asker is sent nothing; a reply, when
\* one is sent, holds a Model for every id the keys stream gave.
C19_ListFailFast ==
    \A t \in DOMAIN listTasks :
        listTasks[t].sender # NoSender =>
            /\ (\E i \in DOMAIN listTasks[t].seen :
                    ~WellFormed(listTasks[t].seen[i]))
               => /\ listTasks[t].pc = "panicked"
                  /\ replies[listTasks[t].sender].got = <<>>
            /\ listTasks[t].pc # "done" =>
                    replies[listTasks[t].sender].got = <<>>
            /\ listTasks[t].pc = "done" =>
                    /\ replies[listTasks[t].sender].got
                            = <<[tag |-> "Vec", val |-> listTasks[t].entities]>>
                    /\ Len(listTasks[t].entities)
                            = Cardinality(DOMAIN listTasks[t].at)
                    /\ Len(listTasks[t].seen)
                            = Cardinality(DOMAIN listTasks[t].at)

C19_Witness ==
    \E t \in DOMAIN listTasks :
        /\ listTasks[t].pc = "panicked"
        /\ listTasks[t].sender # NoSender
        /\ Len(listTasks[t].entities) >= 1
        /\ replies[listTasks[t].sender].got = <<>>

\* C20: a command whose handler returned an error has a task that stopped
\* in the panic: it built no commit, told the Store nothing (the commits the
\* Store was told, and those of the backend, are those of the commands
\* whose handler succeeded) and sent its originator nothing.
C20_HandlerFailure ==
    /\ \A t \in DOMAIN cmdTasks :
            /\ (cmdTasks[t].cmd.op = "Double" /\ cmdTasks[t].res = Some(None))
                    => cmdTasks[t].pc = "panicked"
            /\ cmdTasks[t].pc = "panicked" =>
                    /\ cmdTasks[t].commit = None
                    /\ cmdTasks[t].sender # NoSender =>
                            replies[cmdTasks[t].sender].got = <<>>
    /\ CommitsTold
            = Cardinality({t \in DOMAIN cmdTasks :
                                cmdTasks[t].pc \in {"ack", "done"}})
    /\ \A id \in DOMAIN backend : \A k \in DOMAIN backend[id] :
            \E t \in DOMAIN cmdTasks :
                /\ cmdTasks[t].pc \in {"ack", "done"}
                /\ cmdTasks[t].commit = Some(backend[id][k])

C20_Witness ==
    \E t, u \in DOMAIN cmdTasks :
        /\ cmdTasks[t].pc = "panicked"
        /\ cmdTasks[t].cmd.op = "Double"
        /\ cmdTasks[t].res = Some(None)
        /\ cmdTasks[t].sender # NoSender
        /\ replies[cmdTasks[t].sender].got = <<>>
        /\ cmdTasks[u].pc = "done"
        /\ backend # EmptyStore

\* the command tasks whose handle_command has been entered, and those of
\* them that have left it
Invoked == {t \in DOMAIN cmdTasks : cmdTasks[t].pc # "lock"}
Returned == {t \in Invoked : cmdTasks[t].pc \notin {"handle", "await"}}
\* Commit messages holding c that the Store has been told
Told(c) ==
    Cardinality({i \in DOMAIN storeMail :
                    storeMail[i].kind = "Commit" /\ storeMail[i].c = c})
    + Cardinality({u \in DOMAIN commitTasks : commitTasks[u].c = c})

\* C21: every command the Entity received has one task, which enters
\* handle_command once: the handler has drawn one EntityId per Create
\* command past its invocation and asked one Query per Double command
\* invoked; the Store has been told exactly one Commit per invocation that
\* returned Ok and none for the others; and every received command does
\* get its invocation.
C21_ExactlyOnce ==
    /\ [](/\ nextId = Cardinality({t \in Returned :
                            cmdTasks[t].cmd.op \in {"Create42", "Create99"}})
          /\ Len(SelectSeq(replies, LAMBDA r : r.by = "handler"))
                = Cardinality({t \in Invoked :
                            /\ cmdTasks[t].cmd.op = "Double"
                            /\ cmdTasks[t].pc # "handle"})
          /\ \A t \in DOMAIN cmdTasks :
                /\ cmdTasks[t].commit.tag = "Some"
                        <=> cmdTasks[t].pc \in {"tell", "ack", "done"}
                /\ cmdTasks[t].commit.tag = "Some" =>
                        Told(cmdTasks[t].commit.val)
                            = Cardinality({u \in DOMAIN cmdTasks :
                                    /\ cmdTasks[u].pc \in {"ack", "done"}
                                    /\ cmdTasks[u].commit = cmdTasks[t].commit})
          /\ CommitsTold
                = Cardinality({t \in DOMAIN cmdTasks :
                                    cmdTasks[t].pc \in {"ack", "done"}}))
    /\ \A t \in 1..MaxCmds :
            (t \in DOMAIN cmdTasks)
            ~> (t \in DOMAIN cmdTasks /\ t \in Returned)

C21_Witness ==
    \E t, u \in DOMAIN cmdTasks :
        /\ t # u
        /\ cmdTasks[t].pc = "done"
        /\ cmdTasks[u].pc = "done"
        /\ cmdTasks[t].cmd = Create42
        /\ cmdTasks[u].cmd.op = "Double"
        /\ cmdTasks[u].commit.tag = "Some"
        /\ Told(cmdTasks[t].commit.val) = 1
        /\ Told(cmdTasks[u].commit.val) = 1
        /\ nextId = 1

\* the Store message a Query becomes (Receive<Query> for Entity)
Routed(msg, now) ==
    IF msg.q.q = "One"
    THEN [kind |-> "Snapshot", id |-> msg.q.id, until |-> now,
          sender |-> msg.sender]
    ELSE [kind |-> "SnapshotList", until |-> now, sender |-> msg.sender]
\* the places holding the query asked with reply address a
QueryHolders(a) ==
    Cardinality({i \in DOMAIN entityMail :
                    entityMail[i].kind = "Query" /\ entityMail[i].sender = a})
    + Cardinality({i \in DOMAIN storeMail :
                    storeMail[i].kind # "Commit" /\ storeMail[i].sender = a})
    + Cardinality({t \in DOMAIN snapTasks : snapTasks[t].sender = a})
    + Cardinality({t \in DOMAIN listTasks : listTasks[t].sender = a})

\* C22: the step in which the Entity receives a Query appends to the
\* Store's mailbox exactly one message, Snapshot(id, now) for Query::One(id)
\* and SnapshotList(now) for Query::All, with the Query's sender, and leaves
\* the handler mutex, the reply addresses and the command tasks alone;
\* every query asked is in exactly one place between the asker and the
\* Store's task, the Entity's mailbox never holds a reply, and the Store's
\* task delivers its answer to the asker's address.
C22_QueryRouting ==
    /\ [][(/\ entityMail # <<>>
            /\ Head(entityMail).kind = "Query"
            /\ entityMail' = Tail(entityMail))
           => /\ storeMail' = Append(storeMail, Routed(Head(entityMail), clock))
              /\ UNCHANGED <<esLock, replies, cmdTasks, backend, snapTasks,
                             listTasks>>]_vars
    /\ [](/\ \A i \in DOMAIN entityMail :
                entityMail[i].kind \in {"Cmd", "Query"}
          /\ \A a \in DOMAIN replies :
                replies[a].by \in {"query", "handler"} => QueryHolders(a) = 1
          /\ \A t \in DOMAIN snapTasks :
                snapTasks[t].pc = "done" =>
                    replies[snapTasks[t].sender].got
                        = <<ok(snapTasks[t].snapshot)>>
          /\ \A t \in DOMAIN listTasks :
                listTasks[t].pc = "done" =>
                    replies[listTasks[t].sender].got
                        = <<[tag |-> "Vec", val |-> listTasks[t].entities]>>)

C22_Witness ==
    /\ esLock # 0
    /\ \E i \in DOMAIN storeMail :
            /\ storeMail[i].kind = "Snapshot"
            /\ replies[storeMail[i].sender].by = "handler"
            /\ cmdTasks[esLock].ask = storeMail[i].sender
    /\ \E t \in DOMAIN listTasks :
            /\ listTasks[t].pc = "done"
            /\ replies[listTasks[t].sender].by = "query"
            /\ replies[listTasks[t].sender].got # <<>>

\* C23: the reply of a Snapshot query is the replay of the id's commit
\* sequence as it was when the task read it, between the request and the
\* reply: a sequence that is, then and ever after, a prefix of the id's
\* sequence in the backend, with no gap and in its order (None when it was
\* empty); and no step of a query's task changes the backend.
C23_SnapshotConsistency ==
    /\ [](\A t \in DOMAIN snapTasks :
            /\ IsPrefix(snapTasks[t].seen,
                        change_list(backend, snapTasks[t].id))
            /\ snapTasks[t].pc = "load" =>
                    replies[snapTasks[t].sender].got = <<>>
            /\ snapTasks[t].pc = "done" =>
                    \/ /\ snapTasks[t].seen = <<>>
                       /\ replies[snapTasks[t].sender].got = <<None>>
                    \/ /\ WellFormed(snapTasks[t].seen)
                       /\ replies[snapTasks[t].sender].got
                            = <<Some(Replayed(snapTasks[t].seen))>>)
    /\ [][(snapTasks' # snapTasks \/ replies' # replies)
            => backend' = backend]_vars

C23_Witness ==
    \E t, u \in DOMAIN snapTasks :
        /\ snapTasks[t].id = snapTasks[u].id
        /\ snapTasks[t].pc = "done"
        /\ snapTasks[u].pc = "done"
        /\ WellFormed(snapTasks[t].seen)
        /\ WellFormed(snapTasks[u].seen)
        /\ Len(snapTasks[t].seen) < Len(snapTasks[u].seen)
        /\ replies[snapTasks[t].sender].got
                # replies[snapTasks[u].sender].got
        /\ snapTasks[u].seen = backend[snapTasks[u].id]
====
